---- MODULE Spec2Model ----
(***************************************************************************)
(* Webhook dispatcher: the ingestion route (POST /events), the job store   *)
(* (table webhook_jobs), the BullMQ queue "webhook-delivery", the worker   *)
(* processor with its "failed" listener, and recoverPendingJobs, which     *)
(* both processes run at startup.                                          *)
(***************************************************************************)
EXTENDS Integers, Sequences, FiniteSets, TLC

\* ---------------------------------------------------------------- constants
MaxAttempts == 8
BackoffDelay == 2000
Concurrency == 5

\* ------------------------------------------------------------------- bounds
MaxRequests == 2

Txns == {"t1", "t2"}
OneTxn == "t1"
Amounts == {100, 250}
OneAmount == 100
MERCHANT == "m1"
CURRENCY == "INR"
TARGET_URL == "http://receiver/receive"
Procs == {"api", "worker"}

VARIABLES
    webhook_jobs,   \* the job store: row i has id i (SERIAL)
    webhookQueue,   \* every work item the queue has ever admitted
    reqs,           \* the POST /events requests made so far
    posted,         \* how many of them
    proc,           \* proc[p]: "down", "scan", "adding" or "up"; the worker
                    \* shutting down is "paused", then "closed"
    pendingJobs,    \* pendingJobs[p]: rows still to re-enqueue in p's scan
    acked,          \* job ids for which the receiver has returned 2xx
    env,            \* the environment: transaction ids and amounts in use,
                    \* and how many delivery attempts may still fail
    elapsed,        \* ms on the queue's clock since the last failed attempt
    res,            \* the response to the last GET /status/... request
    sig             \* a call of verifySignature: its arguments and its outcome

vars == <<webhook_jobs, webhookQueue, reqs, posted, proc, pendingJobs, acked,
          env, elapsed, res, sig>>

\* ------------------------------------------------------------ pure helpers
idempotencyKey(transactionId) == <<"txn", transactionId>>

\* const payload = { merchantId, amount, currency, transactionId }: the members
\* of the object in the order the literal lists them
Payload(t, a) ==
    <<<<"merchantId", MERCHANT>>, <<"amount", a>>, <<"currency", CURRENCY>>,
      <<"transactionId", t>>>>

\* the members of a JSON object, whatever their order
Members(p) == {p[k] : k \in DOMAIN p}

KeyLen ==
    [merchantId |-> 10, amount |-> 6, currency |-> 8, transactionId |-> 13]

\* the member with the shortest key (the keys here differ in length)
FirstMember(ms) == CHOOSE m \in ms : \A n \in ms : KeyLen[m[1]] <= KeyLen[n[1]]

RECURSIVE SortMembers(_)
SortMembers(ms) ==
    IF ms = {} THEN <<>>
    ELSE <<FirstMember(ms)>> \o SortMembers(ms \ {FirstMember(ms)})

\* a column that keeps only the first member of the object
ToJsonbLossy(p) == <<FirstMember(Members(p))>>

\* JSON.stringify(payload) stored in a JSONB column and read back: the same
\* members, ordered by key length and then by key
ToJsonb(p) == SortMembers(Members(p))

JobIds == 1..Len(webhook_jobs)

Items == 1..Len(webhookQueue)

Pow2(n) == IF n <= 0 THEN 1 ELSE 2 ^ n

\* a fixed backoff: the same delay before every retry
BackoffFixed(attemptsMade) == BackoffDelay

\* exponential backoff of BullMQ: delay * 2^(attemptsMade - 1)
Backoff(attemptsMade) == BackoffDelay * Pow2(attemptsMade - 1)

\* --------------------------------------------------------------- job store
\* a store without the unique constraint on idempotency_key
ConflictIgnored(key) == FALSE

\* ON CONFLICT (idempotency_key): does a row with this key exist already?
Conflict(key) == \E j \in JobIds : webhook_jobs[j].idempotency_key = key

\* the row that INSERT ... VALUES ($1, $2, $3, 'pending', $4) creates
NewRow(t, a) ==
    [idempotency_key |-> idempotencyKey(t), payload |-> ToJsonb(Payload(t, a)),
     target_url |-> TARGET_URL, status |-> "pending", attempt_count |-> 0,
     last_error |-> "none"]

\* a success path that stores the number of the attempt after this one
MarkDeliveredNext(jobId, attemptNumber) ==
    [webhook_jobs EXCEPT ![jobId].status = "delivered",
                         ![jobId].attempt_count = attemptNumber + 1]

\* UPDATE ... SET status = 'delivered', attempt_count = $1 WHERE id = $2
MarkDelivered(jobId, attemptNumber) ==
    [webhook_jobs EXCEPT ![jobId].status = "delivered",
                         ![jobId].attempt_count = attemptNumber]

\* a listener that numbers the attempt the way the processor does
MarkFailedNext(jobId, attemptsMade, message) ==
    [webhook_jobs EXCEPT ![jobId].status = "failed",
                         ![jobId].attempt_count = attemptsMade + 1,
                         ![jobId].last_error = message]

\* UPDATE ... SET status = 'failed', attempt_count = $1, last_error = $2
MarkFailed(jobId, attemptsMade, message) ==
    [webhook_jobs EXCEPT ![jobId].status = "failed",
                         ![jobId].attempt_count = attemptsMade,
                         ![jobId].last_error = message]

\* a SELECT without the WHERE clause: every row, oldest first
PendingFromAll(j) == [k \in 1..Len(webhook_jobs) |-> k]

\* SELECT id ... WHERE status = 'pending' ORDER BY created_at ASC
RECURSIVE PendingFrom(_)
PendingFrom(j) ==
    IF j > Len(webhook_jobs) THEN <<>>
    ELSE IF webhook_jobs[j].status = "pending"
         THEN <<j>> \o PendingFrom(j + 1)
         ELSE PendingFrom(j + 1)

\* ------------------------------------------------------------------- queue
AutoId(n) == <<"auto", n>>

RecoveryId(jobId) == <<"recovery", jobId>>

\* a queue that never recognises an id it has admitted before
HasItemNever(qid) == FALSE

HasItem(qid) == \E i \in Items : webhookQueue[i].qid = qid

\* an add that names the id the next row of the store will get
NewItemAhead(qid, jobId, payload, targetUrl) ==
    [qid |-> qid, jobId |-> Len(webhook_jobs) + 1, payload |-> payload,
     targetUrl |-> targetUrl, state |-> "waiting",
     attemptsMade |-> 0, delay |-> 0, phase |-> "none", err |-> "none"]

\* Queue.add: a work item in state waiting, with the queue's default options;
\* an add whose custom id is already known to the queue is a no-op
NewItem(qid, jobId, payload, targetUrl) ==
    [qid |-> qid, jobId |-> jobId, payload |-> payload,
     targetUrl |-> targetUrl, state |-> "waiting",
     attemptsMade |-> 0, delay |-> 0, phase |-> "none", err |-> "none"]

QueueAdd(qid, jobId, payload, targetUrl) ==
    IF HasItem(qid) THEN webhookQueue
    ELSE Append(webhookQueue, NewItem(qid, jobId, payload, targetUrl))

\* the id the route's add gets: none is passed, so the queue generates one
RouteItemId(jobId) == AutoId(Len(webhookQueue) + 1)

\* the processor threw: the attempt counts, and the item is retried after
\* its backoff unless this was the last allowed attempt
MoveToFailed(item, message) ==
    LET made == item.attemptsMade + 1 IN
    [item EXCEPT !.attemptsMade = made,
                 !.state = IF made < MaxAttempts THEN "delayed" ELSE "failed",
                 !.delay = IF made < MaxAttempts THEN Backoff(made) ELSE 0,
                 !.phase = "listener", !.err = message]

\* does the worker's "failed" listener write to the store for this item?
ListenerWrites(item) == TRUE

ActiveCount == Cardinality({i \in Items : webhookQueue[i].state = "active"})

\* verifySignature has not been called
NoCall == [payload |-> <<>>, tag |-> <<>>, out |-> "none"]

\* no GET request has been answered yet
NoResponse == [path |-> <<"none", 0>>, code |-> 0, body |-> <<>>]

\* --------------------------------------------------------------------- Init
\* three environments: several transaction ids, or one transaction id
\* submitted with several amounts, both with a receiver and store that never
\* fail a delivery attempt; or one transaction id and amount and as many failed
\* attempts as one work item is allowed
Wide == [keys |-> Txns, amounts |-> {OneAmount}, fails |-> 0]

Resubmit == [keys |-> {OneTxn}, amounts |-> Amounts, fails |-> 0]

Deep == [keys |-> {OneTxn}, amounts |-> {OneAmount}, fails |-> MaxAttempts]

Init ==
    /\ webhook_jobs = <<>>
    /\ webhookQueue = <<>>
    /\ reqs = {}
    /\ posted = 0
    /\ proc = [p \in Procs |-> "down"]
    /\ pendingJobs = [p \in Procs |-> <<>>]
    /\ acked = {}
    /\ env \in {Wide, Resubmit, Deep}
    /\ elapsed = 0
    /\ res = NoResponse
    /\ sig = NoCall

\* ------------------------------------------------------- POST /events route
NoTxn == ""

Request(t, a, pc, ins, jobId, code) ==
    [transactionId |-> t, amount |-> a, pc |-> pc, ins |-> ins,
     enq |-> "none", jobId |-> jobId, code |-> code]

\* an outer catch that answers as if the event had been accepted
OnInsertErrorAccepted(t, a) == Request(t, a, "done", "error", 0, 202)

\* the outer catch: the INSERT threw
OnInsertError(t, a) == Request(t, a, "done", "error", 0, 500)

\* a route that goes on to its enqueue when the key was there already
OnDuplicateEnqueues(t, a) ==
    Request(t, a, "enqueue", "conflict",
            CHOOSE j \in JobIds :
              webhook_jobs[j].idempotency_key = idempotencyKey(t), 0)

\* rows.length === 0: the key was there already
OnDuplicate(t, a) == Request(t, a, "done", "conflict", 0, 409)

\* an inner catch that rethrows into the outer one
OnEnqueueErrorSurfaced(r) ==
    [r EXCEPT !.pc = "done", !.enq = "failed", !.code = 500]

\* the inner catch: the add threw, the route logs a warning and goes on
OnEnqueueError(r) ==
    [r EXCEPT !.pc = "done", !.enq = "failed", !.code = 202]

OnEnqueued(r) ==
    [r EXCEPT !.pc = "done", !.enq = "ok", !.code = 202]

\* a request arrives and runs up to the end of its INSERT
PostEvents(t, a) ==
    /\ proc["api"] = "up"
    /\ posted < MaxRequests
    /\ posted' = posted + 1
    /\ t \in env.keys \cup {NoTxn}
    /\ a \in env.amounts
    /\ IF t = NoTxn
       THEN /\ reqs' = reqs \cup {Request(t, a, "done", "invalid", 0, 400)}
            /\ UNCHANGED webhook_jobs
       ELSE IF Conflict(idempotencyKey(t))
       THEN /\ reqs' = reqs \cup {OnDuplicate(t, a)}
            /\ UNCHANGED webhook_jobs
       ELSE /\ webhook_jobs' = Append(webhook_jobs, NewRow(t, a))
            /\ reqs' = reqs \cup {Request(t, a, "enqueue", "ok",
                                           Len(webhook_jobs) + 1, 0)}
    /\ UNCHANGED <<webhookQueue, proc, pendingJobs, acked, env, elapsed, res,
                   sig>>

\* a request arrives while the store is unreachable
PostEventsStoreDown(t, a) ==
    /\ proc["api"] = "up"
    /\ posted < MaxRequests
    /\ posted' = posted + 1
    /\ t \in env.keys
    /\ a \in env.amounts
    /\ reqs' = reqs \cup {OnInsertError(t, a)}
    /\ UNCHANGED <<webhook_jobs, webhookQueue, proc, pendingJobs, acked, env,
                   elapsed, res, sig>>

\* webhookQueue.add("send-webhook", { jobId, payload, targetUrl })
RouteEnqueue(r) ==
    /\ r.pc = "enqueue"
    /\ webhookQueue' = QueueAdd(RouteItemId(r.jobId), r.jobId,
                                Payload(r.transactionId, r.amount), TARGET_URL)
    /\ reqs' = (reqs \ {r}) \cup {OnEnqueued(r)}
    /\ UNCHANGED <<webhook_jobs, posted, proc, pendingJobs, acked, env,
                   elapsed, res, sig>>

\* the add throws: Redis is unreachable
RouteEnqueueFails(r) ==
    /\ r.pc = "enqueue"
    /\ reqs' = (reqs \ {r}) \cup {OnEnqueueError(r)}
    /\ UNCHANGED <<webhook_jobs, webhookQueue, posted, proc, pendingJobs,
                   acked, env, elapsed, res, sig>>

\* the API process dies: requests between their two writes get no answer
ApiCrash ==
    /\ proc["api"] # "down"
    /\ proc' = [proc EXCEPT !["api"] = "down"]
    /\ pendingJobs' = [pendingJobs EXCEPT !["api"] = <<>>]
    /\ reqs' = {IF r.pc = "enqueue" THEN [r EXCEPT !.pc = "lost"] ELSE r :
                   r \in reqs}
    /\ UNCHANGED <<webhook_jobs, webhookQueue, posted, acked, env, elapsed,
                   res, sig>>

\* ------------------------------------------- startup and recoverPendingJobs
\* start() / startWorker() up to the end of initDB
Start(p) ==
    /\ proc[p] = "down"
    /\ proc' = [proc EXCEPT ![p] = "scan"]
    /\ UNCHANGED <<webhook_jobs, webhookQueue, reqs, posted, pendingJobs,
                   acked, env, elapsed, res, sig>>

\* the SELECT of the pending rows; an empty result returns at once
RecoverScan(p) ==
    /\ proc[p] = "scan"
    /\ pendingJobs' = [pendingJobs EXCEPT ![p] = PendingFrom(1)]
    /\ proc' = [proc EXCEPT ![p] = IF PendingFrom(1) = <<>> THEN "up"
                                   ELSE "adding"]
    /\ UNCHANGED <<webhook_jobs, webhookQueue, reqs, posted, acked, env,
                   elapsed, res, sig>>

\* one turn of the loop: add with the custom id recovery-<id>
RecoverAdd(p) ==
    /\ proc[p] = "adding"
    /\ LET jobId == Head(pendingJobs[p]) IN
         webhookQueue' = QueueAdd(RecoveryId(jobId), jobId,
                                  webhook_jobs[jobId].payload,
                                  webhook_jobs[jobId].target_url)
    /\ pendingJobs' = [pendingJobs EXCEPT ![p] = Tail(@)]
    /\ proc' = [proc EXCEPT ![p] = IF Tail(pendingJobs[p]) = <<>> THEN "up"
                                   ELSE "adding"]
    /\ UNCHANGED <<webhook_jobs, reqs, posted, acked, env, elapsed, res, sig>>

\* a startup that swallows the error and goes on to listen or consume
RecoverFailsAbsorbed(p) ==
    /\ proc[p] \in {"scan", "adding"}
    /\ proc' = [proc EXCEPT ![p] = "up"]
    /\ pendingJobs' = [pendingJobs EXCEPT ![p] = <<>>]
    /\ UNCHANGED <<webhook_jobs, webhookQueue, reqs, posted, acked, env,
                   elapsed, res, sig>>

\* the SELECT or an add throws: start().catch exits the process
RecoverFails(p) ==
    /\ proc[p] \in {"scan", "adding"}
    /\ proc' = [proc EXCEPT ![p] = "down"]
    /\ pendingJobs' = [pendingJobs EXCEPT ![p] = <<>>]
    /\ UNCHANGED <<webhook_jobs, webhookQueue, reqs, posted, acked, env,
                   elapsed, res, sig>>

\* ------------------------------------------------------------------ worker
\* the worker takes a waiting item, or a delayed one whose backoff has elapsed
\* (by then the "failed" listener's UPDATE, a single statement, is over): the
\* processor runs up to axios.post
Take(i) ==
    /\ proc["worker"] = "up"
    /\ webhookQueue[i].state \in {"waiting", "delayed"}
    /\ webhookQueue[i].phase = "none"
    /\ ActiveCount < Concurrency
    /\ webhookQueue' = [webhookQueue EXCEPT ![i].state = "active",
                                            ![i].phase = "post"]
    /\ UNCHANGED <<webhook_jobs, reqs, posted, proc, pendingJobs, acked, env,
                   elapsed, res, sig>>

\* the receiver answers 2xx: the processor goes on to its UPDATE
Receiver2xx(i) ==
    /\ webhookQueue[i].phase = "post"
    /\ webhookQueue' = [webhookQueue EXCEPT ![i].phase = "write"]
    /\ acked' = acked \cup {webhookQueue[i].jobId}
    /\ UNCHANGED <<webhook_jobs, reqs, posted, proc, pendingJobs, env,
                   elapsed, res, sig>>

\* non-2xx, network error or the 12 s timeout: axios.post throws
ReceiverRejects(i) ==
    /\ webhookQueue[i].phase = "post"
    /\ env.fails > 0
    /\ env' = [env EXCEPT !.fails = @ - 1]
    /\ webhookQueue' = [webhookQueue EXCEPT ![i] = MoveToFailed(@, "http")]
    /\ elapsed' = 0
    /\ UNCHANGED <<webhook_jobs, reqs, posted, proc, pendingJobs, acked, res,
                   sig>>

\* the UPDATE to delivered succeeds and the processor returns
StoreDelivered(i) ==
    /\ webhookQueue[i].phase = "write"
    /\ webhook_jobs' = MarkDelivered(webhookQueue[i].jobId,
                                     webhookQueue[i].attemptsMade + 1)
    /\ webhookQueue' = [webhookQueue EXCEPT ![i].state = "completed",
                                            ![i].phase = "none"]
    /\ UNCHANGED <<reqs, posted, proc, pendingJobs, acked, env, elapsed, res,
                   sig>>

\* the UPDATE to delivered throws inside the processor
StoreDeliveredFails(i) ==
    /\ webhookQueue[i].phase = "write"
    /\ env.fails > 0
    /\ env' = [env EXCEPT !.fails = @ - 1]
    /\ webhookQueue' = [webhookQueue EXCEPT ![i] = MoveToFailed(@, "db")]
    /\ elapsed' = 0
    /\ UNCHANGED <<webhook_jobs, reqs, posted, proc, pendingJobs, acked, res,
                   sig>>

\* worker.on("failed"): the listener's UPDATE
FailedListener(i) ==
    /\ webhookQueue[i].phase = "listener"
    /\ webhook_jobs' = IF ListenerWrites(webhookQueue[i])
                       THEN MarkFailed(webhookQueue[i].jobId,
                                       webhookQueue[i].attemptsMade,
                                       webhookQueue[i].err)
                       ELSE webhook_jobs
    /\ webhookQueue' = [webhookQueue EXCEPT ![i].phase = "none"]
    /\ UNCHANGED <<reqs, posted, proc, pendingJobs, acked, env, elapsed, res,
                   sig>>

\* --------------------------------------------------------- worker shutdown
\* a worker closed by force, without waiting for its active jobs
ForcedClose == TRUE

\* await worker.pause() and await worker.close() resolve when no processor
\* of this worker is running any more
ActiveJobsFinished == ActiveCount = 0

\* pool.end() resolves when every query under way has returned
QueriesReturned == \A i \in Items : webhookQueue[i].phase # "listener"

\* SIGTERM or SIGINT: shutdown() calls worker.pause()
Sigterm ==
    /\ proc["worker"] = "up"
    /\ proc' = [proc EXCEPT !["worker"] = "paused"]
    /\ UNCHANGED <<webhook_jobs, webhookQueue, reqs, posted, pendingJobs,
                   acked, env, elapsed, res, sig>>

\* worker.pause() and worker.close() have resolved
WorkerClosed ==
    /\ proc["worker"] = "paused"
    /\ ActiveJobsFinished
    /\ proc' = [proc EXCEPT !["worker"] = "closed"]
    /\ UNCHANGED <<webhook_jobs, webhookQueue, reqs, posted, pendingJobs,
                   acked, env, elapsed, res, sig>>

\* closeDB(), redis.quit() and process.exit(0)
WorkerExit ==
    /\ proc["worker"] = "closed"
    /\ QueriesReturned
    /\ proc' = [proc EXCEPT !["worker"] = "down"]
    /\ UNCHANGED <<webhook_jobs, webhookQueue, reqs, posted, pendingJobs,
                   acked, env, elapsed, res, sig>>

\* -------------------------------------------------------------------- Next
Next ==
    \/ \E t \in Txns \cup {NoTxn}, a \in Amounts : PostEvents(t, a)
    \/ \E t \in Txns, a \in Amounts : PostEventsStoreDown(t, a)
    \/ \E r \in reqs : RouteEnqueue(r)
    \/ \E r \in reqs : RouteEnqueueFails(r)
    \/ ApiCrash
    \/ \E p \in Procs : Start(p)
    \/ \E p \in Procs : RecoverScan(p)
    \/ \E p \in Procs : RecoverAdd(p)
    \/ \E p \in Procs : RecoverFails(p)
    \/ \E i \in Items : Take(i)
    \/ \E i \in Items : Receiver2xx(i)
    \/ \E i \in Items : ReceiverRejects(i)
    \/ \E i \in Items : StoreDelivered(i)
    \/ \E i \in Items : StoreDeliveredFails(i)
    \/ \E i \in Items : FailedListener(i)
    \/ Sigterm
    \/ WorkerClosed
    \/ WorkerExit

Spec == Init /\ [][Next]_vars

\* ------------------------------------------------- the backoff on a clock
\* One work item followed on the queue's clock: the item of a request that was
\* inserted and enqueued while both processes were up.
TickMs == 1000
MaxElapsed == 128000

InitBackoff ==
    /\ webhook_jobs = <<NewRow(OneTxn, OneAmount)>>
    /\ webhookQueue = <<NewItem(AutoId(1), 1, Payload(OneTxn, OneAmount),
                                TARGET_URL)>>
    /\ reqs = {OnEnqueued(Request(OneTxn, OneAmount, "enqueue", "ok", 1, 0))}
    /\ posted = 1
    /\ proc = [p \in Procs |-> "up"]
    /\ pendingJobs = [p \in Procs |-> <<>>]
    /\ acked = {}
    /\ env = Deep
    /\ elapsed = 0
    /\ res = NoResponse
    /\ sig = NoCall

\* time passes
Tick ==
    /\ elapsed < MaxElapsed
    /\ elapsed' = elapsed + TickMs
    /\ UNCHANGED <<webhook_jobs, webhookQueue, reqs, posted, proc,
                   pendingJobs, acked, env, res, sig>>

\* the queue hands out a delayed item only when its delay has elapsed
TakeDue(i) ==
    /\ webhookQueue[i].state = "delayed" => elapsed >= webhookQueue[i].delay
    /\ Take(i)

NextBackoff ==
    \/ Tick
    \/ \E i \in Items : TakeDue(i)
    \/ \E i \in Items : Receiver2xx(i)
    \/ \E i \in Items : ReceiverRejects(i)
    \/ \E i \in Items : StoreDelivered(i)
    \/ \E i \in Items : StoreDeliveredFails(i)
    \/ \E i \in Items : FailedListener(i)

SpecBackoff == InitBackoff /\ [][NextBackoff]_vars

\* ------------------------------------------------------ GET /status routes
\* the last segment of a requested path /status/<segment>
Id(n) == <<"id", n>>

Word(w) == <<"word", w>>

Paths == {Id(n) : n \in 1..(MaxRequests + 1)} \cup {Word("all")}

\* the two GET routes, in the order the router registers them
Routes == <<"/status/:jobId", "/status/all">>

\* does the route's pattern match /status/<segment>? a parameter matches any
\* segment
Matches(route, seg) ==
    IF route = "/status/:jobId" THEN TRUE ELSE seg = Word("all")

\* the router runs the first registered route that matches; both handlers
\* answer and neither passes the request on
Dispatch(seg) ==
    Routes[CHOOSE k \in DOMAIN Routes :
             /\ Matches(Routes[k], seg)
             /\ \A m \in 1..(k - 1) : ~Matches(Routes[m], seg)]

\* SELECT id, merchant_id, status, attempt_count, last_error, idempotency_key
Projection(j) ==
    [id |-> j, status |-> webhook_jobs[j].status,
     attempt_count |-> webhook_jobs[j].attempt_count,
     last_error |-> webhook_jobs[j].last_error,
     idempotency_key |-> webhook_jobs[j].idempotency_key]

\* router.get("/status/:jobId"): WHERE id = $1 throws when the parameter is
\* not an integer, and the catch answers 500
StatusJob(seg) ==
    IF seg[1] # "id"
    THEN [path |-> seg, code |-> 500, body |-> "Internal server error"]
    ELSE IF seg[2] \notin JobIds
    THEN [path |-> seg, code |-> 404, body |-> "Job not found"]
    ELSE [path |-> seg, code |-> 200, body |-> Projection(seg[2])]

RowsWith(status) == {j \in JobIds : webhook_jobs[j].status = status}

RECURSIVE SumAttempts(_)
SumAttempts(js) ==
    IF js = {} THEN 0
    ELSE LET j == CHOOSE x \in js : TRUE IN
           webhook_jobs[j].attempt_count + SumAttempts(js \ {j})

MaxAttemptCount(js) ==
    CHOOSE m \in {webhook_jobs[j].attempt_count : j \in js} :
      \A j \in js : webhook_jobs[j].attempt_count <= m

\* SELECT status, COUNT(*), AVG(attempt_count), MAX(attempt_count)
\* ... GROUP BY status; the average is kept as <<sum, count>>
Summary ==
    {[status |-> st, count |-> Cardinality(RowsWith(st)),
      avg_attempts |-> <<SumAttempts(RowsWith(st)), Cardinality(RowsWith(st))>>,
      max_attempts |-> MaxAttemptCount(RowsWith(st))] :
       st \in {webhook_jobs[j].status : j \in JobIds}}

\* router.get("/status/all")
StatusAll(seg) == [path |-> seg, code |-> 200, body |-> Summary]

\* a GET /status/<segment> request is answered
GetStatus(seg) ==
    /\ proc["api"] = "up"
    /\ res' = IF Dispatch(seg) = "/status/:jobId" THEN StatusJob(seg)
               ELSE StatusAll(seg)
    /\ UNCHANGED <<webhook_jobs, webhookQueue, reqs, posted, proc,
                   pendingJobs, acked, env, elapsed, sig>>

\* several transaction ids and one delivery attempt that may fail
Few == [keys |-> Txns, amounts |-> {OneAmount}, fails |-> 1]

InitStatus ==
    /\ webhook_jobs = <<>>
    /\ webhookQueue = <<>>
    /\ reqs = {}
    /\ posted = 0
    /\ proc = [p \in Procs |-> "down"]
    /\ pendingJobs = [p \in Procs |-> <<>>]
    /\ acked = {}
    /\ env = Few
    /\ elapsed = 0
    /\ res = NoResponse
    /\ sig = NoCall

\* the status routes next to the steps that fill the store and move its rows
\* to delivered and failed
NextStatus ==
    \/ \E seg \in Paths : GetStatus(seg)
    \/ \E t \in Txns \cup {NoTxn}, a \in Amounts : PostEvents(t, a)
    \/ \E r \in reqs : RouteEnqueue(r)
    \/ \E p \in Procs : Start(p)
    \/ \E p \in Procs : RecoverScan(p)
    \/ \E p \in Procs : RecoverAdd(p)
    \/ \E i \in Items : Take(i)
    \/ \E i \in Items : Receiver2xx(i)
    \/ \E i \in Items : ReceiverRejects(i)
    \/ \E i \in Items : StoreDelivered(i)
    \/ \E i \in Items : FailedListener(i)

SpecStatus == InitStatus /\ [][NextStatus]_vars

\* ----------------------------------------------------------- signature.js
\* payload strings and tags are sequences of characters
PayloadChars == {"a", "b"}
MaxPayloadLen == 2
PayloadStrings ==
    UNION {[1..n -> PayloadChars] : n \in 0..MaxPayloadLen}

\* the characters of a hex digest, and a character outside ASCII
HexChars == {"0", "1"}
OtherChars == {"U+00E9"}
DigestLen == 4
Tags == [1..DigestLen -> HexChars \cup OtherChars]

RECURSIVE Value(_)
Value(p) ==
    IF p = <<>> THEN 0
    ELSE 2 * Value(SubSeq(p, 1, Len(p) - 1))
           + (IF p[Len(p)] = "a" THEN 0 ELSE 1)

\* the place of a payload string among all payload strings
Index(p) == (2 ^ Len(p)) - 1 + Value(p)

Bit(n, k) == IF (n \div (2 ^ (DigestLen - k))) % 2 = 0 THEN "0" ELSE "1"

\* createHmac("sha256", SECRET).update(payloadString).digest("hex"): a hex
\* string of fixed length; different payload strings get different digests
generateSignature(payloadString) ==
    [k \in 1..DigestLen |-> Bit(Index(payloadString), k)]

\* Buffer.from(string): the UTF-8 bytes, one for an ASCII character and two
\* for U+00E9 (e acute)
RECURSIVE BufferFrom(_)
BufferFrom(str) ==
    IF str = <<>> THEN <<>>
    ELSE (IF Head(str) \in OtherChars THEN <<"c3", "a9">> ELSE <<Head(str)>>)
           \o BufferFrom(Tail(str))

\* crypto.timingSafeEqual throws when the byte lengths differ
timingSafeEqual(a, b) ==
    IF Len(a) # Len(b) THEN "RangeError"
    ELSE IF a = b THEN "true" ELSE "false"

verifySignature(payloadString, receivedSignature) ==
    timingSafeEqual(BufferFrom(generateSignature(payloadString)),
                    BufferFrom(receivedSignature))

InitSignature ==
    /\ webhook_jobs = <<>>
    /\ webhookQueue = <<>>
    /\ reqs = {}
    /\ posted = 0
    /\ proc = [p \in Procs |-> "down"]
    /\ pendingJobs = [p \in Procs |-> <<>>]
    /\ acked = {}
    /\ env = Wide
    /\ elapsed = 0
    /\ res = NoResponse
    /\ sig = NoCall

\* verifySignature is called with a payload string and a tag
Verify(payloadString, receivedSignature) ==
    /\ sig' = [payload |-> payloadString, tag |-> receivedSignature,
               out |-> verifySignature(payloadString, receivedSignature)]
    /\ UNCHANGED <<webhook_jobs, webhookQueue, reqs, posted, proc, pendingJobs,
                   acked, env, elapsed, res>>

NextSignature ==
    \E payloadString \in PayloadStrings, receivedSignature \in Tags :
      Verify(payloadString, receivedSignature)

SpecSignature == InitSignature /\ [][NextSignature]_vars

\* ================================================================== claims
KeyRows(key) == {j \in JobIds : webhook_jobs[j].idempotency_key = key}

ItemsOf(jobId) == {i \in Items : webhookQueue[i].jobId = jobId}

Terminal == {"delivered", "failed"}

\* C1 -- idempotent submission: the store never holds two rows with one
\* idempotency key; a request whose INSERT went through created exactly the one
\* row of its key; a request that met an existing key got 409 and created no
\* row; and there are exactly as many rows as requests that created one.
C1_IdempotentSubmission ==
    /\ \A t \in Txns : Cardinality(KeyRows(idempotencyKey(t))) <= 1
    /\ \A r \in reqs :
         /\ r.ins = "ok" => KeyRows(idempotencyKey(r.transactionId)) = {r.jobId}
         /\ r.ins = "conflict" =>
              /\ r.code = 409
              /\ r.jobId = 0
              /\ r.enq = "none"
              /\ KeyRows(idempotencyKey(r.transactionId)) # {}
    /\ Len(webhook_jobs) = Cardinality({r \in reqs : r.ins = "ok"})

\* a key was submitted a second time after the first submission created its row
C1_Witness ==
    \E r1, r2 \in reqs :
      /\ r1.ins = "ok"
      /\ r2.ins = "conflict"
      /\ r1.transactionId = r2.transactionId

\* C2 -- terminal states: no step changes the status of a row whose status is
\* delivered or failed.
C2_TerminalStates ==
    [][\A j \in JobIds :
         webhook_jobs[j].status \in Terminal =>
           webhook_jobs'[j].status = webhook_jobs[j].status]_vars

\* C3 -- a row whose status is failed belongs to a job for which a work item
\* has made all MaxAttempts attempts, and no work item of the job is waiting
\* for a further attempt.
C3_FailedOnlyWhenExhausted ==
    \A j \in JobIds :
      webhook_jobs[j].status = "failed" =>
        /\ \E i \in ItemsOf(j) : webhookQueue[i].attemptsMade = MaxAttempts
        /\ \A i \in ItemsOf(j) :
             webhookQueue[i].state \notin {"waiting", "delayed"}

\* C4 -- at most one delivery attempt of a job is in flight at any time.
C4_OneDeliveryAtATime ==
    \A j \in JobIds :
      Cardinality({i \in ItemsOf(j) : webhookQueue[i].phase = "post"}) <= 1

\* C5 -- the queue never holds two work items for one job id: the
\* reconciler's add is absorbed when the route's add already went through.
C5_RecoveryAbsorbed ==
    \A j \in JobIds : Cardinality(ItemsOf(j)) <= 1

\* the job's row was written but the route never got its work item into the
\* queue: the add threw, or the process died between the two writes
Orphaned(j) ==
    \E r \in reqs : r.jobId = j /\ (r.pc = "lost" \/ r.enq = "failed")

\* the queue has nothing left to do for the job
Settled(j) ==
    \A i \in ItemsOf(j) :
      /\ webhookQueue[i].state \in {"completed", "failed"}
      /\ webhookQueue[i].phase = "none"

\* C6 -- crash-safe recovery: a job that was inserted but never enqueued by
\* its request, and for which the receiver has accepted an attempt of the
\* reconciler's work item, has status delivered once the queue has nothing
\* left to do for it, and its key still has exactly one row.
C6_CrashSafeRecovery ==
    \A j \in JobIds :
      (Orphaned(j) /\ j \in acked /\ Settled(j)) =>
        /\ webhook_jobs[j].status = "delivered"
        /\ Cardinality(KeyRows(webhook_jobs[j].idempotency_key)) = 1

\* C7 -- at-least-once delivery: an accepted job for which the receiver has
\* returned 2xx on some attempt has final status delivered.
C7_FinalStatusDelivered ==
    \A r \in reqs :
      (r.code = 202 /\ r.jobId \in acked /\ Settled(r.jobId)) =>
        webhook_jobs[r.jobId].status = "delivered"

\* C8 -- a work item whose attempt got 2xx and whose status write is under way
\* is never rescheduled for another attempt.
C8_NoRedeliveryAfterStoreError ==
    [][\A i \in Items :
         webhookQueue[i].phase = "write" => webhookQueue'[i].state # "delayed"]_vars

\* C9 (as claimed) -- a request whose enqueue failed is answered with a
\* failure status.
C9_EnqueueFailureSurfaced ==
    \A r \in reqs : r.enq = "failed" => r.code >= 400

\* C9 (amended) -- a request whose enqueue failed is still answered 202 with
\* the id of the row it created; the row is in the store and the queue holds
\* no work item from the route for it.
C9_EnqueueFailureAccepted ==
    \A r \in reqs :
      r.enq = "failed" =>
        /\ r.code = 202
        /\ KeyRows(idempotencyKey(r.transactionId)) = {r.jobId}
        /\ \A i \in ItemsOf(r.jobId) : webhookQueue[i].qid = RecoveryId(r.jobId)

\* the add of a request threw after its row was inserted
C9_Witness == \E r \in reqs : r.enq = "failed" /\ r.jobId \in JobIds

\* C10 -- a request whose INSERT failed is answered 500 without a job id and
\* never adds to the queue: the route's work items are exactly those of the
\* requests whose add went through.
C10_StoreFailureVisible ==
    /\ \A r \in reqs :
         r.ins = "error" =>
           r.code = 500 /\ r.jobId = 0 /\ r.enq = "none" /\ r.pc = "done"
    /\ Cardinality({i \in Items : webhookQueue[i].qid[1] = "auto"})
         = Cardinality({r \in reqs : r.enq = "ok"})

\* the INSERT of a request threw
C10_Witness == \E r \in reqs : r.ins = "error" /\ r.code # 0

\* outbound POSTs a work item has made: one per failed attempt, and one more
\* while an attempt is running or after it succeeded
PostsMade(i) ==
    webhookQueue[i].attemptsMade
      + (IF webhookQueue[i].state \in {"active", "completed"} THEN 1 ELSE 0)

RECURSIVE PostsUpTo(_, _)
PostsUpTo(n, j) ==
    IF n = 0 THEN 0
    ELSE PostsUpTo(n - 1, j)
           + (IF webhookQueue[n].jobId = j THEN PostsMade(n) ELSE 0)

JobPosts(j) == PostsUpTo(Len(webhookQueue), j)

\* C11 -- bounded attempts: no job ever gets more than MaxAttempts outbound
\* POSTs, and a job whose receiver never accepted has had exactly MaxAttempts
\* once the queue has nothing left to do for it.
C11_BoundedAttempts ==
    \A j \in JobIds :
      /\ JobPosts(j) <= MaxAttempts
      /\ (ItemsOf(j) # {} /\ Settled(j) /\ j \notin acked) =>
           JobPosts(j) = MaxAttempts

\* C12 -- no step lowers the attempt_count of a row.
C12_AttemptCountMonotone ==
    [][\A j \in JobIds :
         webhook_jobs'[j].attempt_count >= webhook_jobs[j].attempt_count]_vars

\* C13 -- the attempt_count of every row is between 0 and MaxAttempts.
C13_AttemptCountInRange ==
    \A j \in JobIds : webhook_jobs[j].attempt_count \in 0..MaxAttempts

\* a row whose work item has failed its last allowed attempt
C13_Witness ==
    \E j \in JobIds :
      /\ webhook_jobs[j].attempt_count = MaxAttempts
      /\ webhook_jobs[j].status = "failed"

\* a request arrives and meets a row with its idempotency key
DuplicateSubmitted ==
    /\ posted' = posted + 1
    /\ \E r \in reqs' \ reqs : r.ins = "conflict"

\* C14 -- a duplicate submission changes nothing: the step that handles it
\* leaves every row of the store and every work item of the queue as they were
\* and answers 409 at once, and the request never gets to the route's enqueue.
C14_DuplicateChangesNothing ==
    [][/\ DuplicateSubmitted =>
            /\ UNCHANGED <<webhook_jobs, webhookQueue>>
            /\ \A r \in reqs' \ reqs :
                 r.pc = "done" /\ r.enq = "none" /\ r.code = 409
       /\ \A r \in reqs : r.ins = "conflict" => r \in reqs']_vars

\* a key is submitted again after its job has been attempted
C14_Witness ==
    \E r \in reqs :
      /\ r.ins = "conflict"
      /\ \E j \in KeyRows(idempotencyKey(r.transactionId)) :
           webhook_jobs[j].attempt_count > 0 /\ ItemsOf(j) # {}

\* the request that created the row of a job
Submitted(j) == CHOOSE r \in reqs : r.jobId = j

\* C15 -- store write precedes enqueue: every work item of the queue, from the
\* route or from the reconciler, names a job id whose row is in the store.
C15_StoreWritePrecedesEnqueue ==
    \A i \in Items :
      /\ webhookQueue[i].jobId \in JobIds
      /\ \E r \in reqs : r.jobId = webhookQueue[i].jobId /\ r.ins = "ok"

\* the queue holds a work item from the route and one from the reconciler
C15_Witness ==
    \E i1, i2 \in Items :
      /\ webhookQueue[i1].qid[1] = "auto"
      /\ webhookQueue[i2].qid[1] = "recovery"

C17_RetryThenSucceed ==
    \A i \in Items :
      LET j == webhookQueue[i].jobId IN
        (/\ webhookQueue[i].state = "completed"
         /\ Settled(j)
         /\ \A n \in ItemsOf(j) : webhookQueue[n].err # "db") =>
          /\ webhook_jobs[j].status = "delivered"
          /\ webhook_jobs[j].attempt_count = webhookQueue[i].attemptsMade + 1

\* the worker starts an attempt of work item i in this step
AttemptStarts(i) ==
    webhookQueue[i].state # "active" /\ webhookQueue'[i].state = "active"

\* C19 -- within a job, attempts are sequential and their numbers increase:
\* when an attempt of a job starts, no other attempt of the job is running and
\* its number, attemptsMade + 1, is greater than every number already sent for
\* the job.
C19_AttemptNumbersIncrease ==
    [][\A i \in Items :
         AttemptStarts(i) =>
           \A n \in ItemsOf(webhookQueue[i].jobId) :
             /\ webhookQueue[n].state # "active"
             /\ PostsMade(n) < webhookQueue[i].attemptsMade + 1]_vars

\* the delay before retry n, in ms
RetryDelays == <<2000, 4000, 8000, 16000, 32000, 64000, 128000>>

\* C18 -- backoff schedule: a work item waiting for retry n is delayed by
\* 2000 ms * 2^(n-1); the delay of each retry is at least that of the retry
\* before; and a retry starts only when that delay has elapsed since the
\* failure before it.
C18_BackoffSchedule ==
    /\ [](\A i \in Items :
            webhookQueue[i].state = "delayed" =>
              webhookQueue[i].delay = RetryDelays[webhookQueue[i].attemptsMade])
    /\ [][\A i \in Items :
            /\ webhookQueue'[i].state = "delayed" =>
                 webhookQueue'[i].delay >= webhookQueue[i].delay
            /\ (AttemptStarts(i) /\ webhookQueue[i].attemptsMade > 0) =>
                 elapsed >= RetryDelays[webhookQueue[i].attemptsMade]]_vars

\* the last retry of a work item is running, after the longest delay
C18_Witness ==
    \E i \in Items :
      /\ webhookQueue[i].state = "active"
      /\ webhookQueue[i].attemptsMade = MaxAttempts - 1
      /\ elapsed >= 128000

\* C20 -- graceful shutdown ordering: from the signal on the worker starts no
\* attempt; the worker is closed only when no attempt is in flight; the pool
\* and the queue connection are closed only after that; so a worker that is
\* closed or gone has left no work item active.
C20_GracefulShutdown ==
    /\ [](proc["worker"] \in {"closed", "down"} =>
            \A i \in Items : webhookQueue[i].state # "active")
    /\ [][/\ proc["worker"] # "up" => \A i \in Items : ~AttemptStarts(i)
          /\ proc'["worker"] = "closed" => proc["worker"] \in {"paused", "closed"}
          /\ (proc["worker"] = "closed" /\ proc'["worker"] = "down") =>
               \A i \in Items : webhookQueue[i].phase = "none"]_vars

\* the signal has come while attempts are in flight
C20_Witness == proc["worker"] = "paused" /\ ActiveCount > 0

RecoveryItems(j) == {i \in Items : webhookQueue[i].qid = RecoveryId(j)}

\* C21 -- reconciliation is repeatable: however often and from whichever
\* process recoverPendingJobs runs, the queue holds at most one work item
\* recovery-<id> per job, and an add for a job that has one already leaves the
\* queue as it was.
C21_ReconciliationRepeatable ==
    /\ [](\A j \in JobIds : Cardinality(RecoveryItems(j)) <= 1)
    /\ [][\A p \in Procs :
            (/\ proc[p] = "adding"
             /\ pendingJobs'[p] = Tail(pendingJobs[p])
             /\ RecoveryItems(Head(pendingJobs[p])) # {}) =>
              webhookQueue' = webhookQueue]_vars

\* a second run of the reconciler is about to add a job the first run added
C21_Witness ==
    \E p \in Procs :
      /\ proc[p] = "adding"
      /\ RecoveryItems(Head(pendingJobs[p])) # {}

\* C22 -- the status endpoints: GET /status/all is answered with the summary
\* of the rows grouped by status; GET /status/<id> is answered with the
\* projection of that row, or with 404 when there is none; and answering
\* changes no row.
C22_StatusEndpoints ==
    [][res' # res =>
         /\ webhook_jobs' = webhook_jobs
         /\ res'.path = Word("all") =>
              res'.code = 200 /\ res'.body = Summary
         /\ res'.path[1] = "id" =>
              IF res'.path[2] \in JobIds
              THEN res'.code = 200 /\ res'.body = Projection(res'.path[2])
              ELSE res'.code = 404]_vars

\* C23 -- signature round trip: verifySignature answers true for a payload
\* string and its own signature, and false for the signature of any other
\* payload string and for any other tag of the same length.
C23_SignatureRoundTrip ==
    sig.out # "none" =>
      /\ sig.tag = generateSignature(sig.payload) => sig.out = "true"
      /\ \A other \in PayloadStrings \ {sig.payload} :
           sig.tag = generateSignature(other) => sig.out = "false"
      /\ (/\ sig.tag # generateSignature(sig.payload)
          /\ Len(sig.tag) = Len(generateSignature(sig.payload))) =>
           sig.out = "false"

Range(seq) == {seq[k] : k \in DOMAIN seq}

Ascending(seq) == \A k, m \in DOMAIN seq : k < m => seq[k] < seq[m]

\* C24 -- the reconciler only re-submits pending jobs: its scan yields exactly
\* the rows that are pending then, oldest first; each turn of its loop adds at
\* most one work item, for the next scanned job and under the id
\* recovery-<id>; and neither the scan nor an add changes a row.
C24_OnlyPendingResubmitted ==
    [][\A p \in Procs :
         /\ (proc[p] = "scan" /\ proc'[p] \in {"adding", "up"}) =>
              /\ Range(pendingJobs'[p]) =
                   {j \in JobIds : webhook_jobs[j].status = "pending"}
              /\ Ascending(pendingJobs'[p])
              /\ UNCHANGED <<webhook_jobs, webhookQueue>>
         /\ (/\ proc[p] = "adding"
             /\ proc'[p] \in {"adding", "up"}
             /\ pendingJobs'[p] # pendingJobs[p]) =>
              /\ pendingJobs'[p] = Tail(pendingJobs[p])
              /\ UNCHANGED webhook_jobs
              /\ \/ webhookQueue' = webhookQueue
                 \/ /\ Len(webhookQueue') = Len(webhookQueue) + 1
                    /\ SubSeq(webhookQueue', 1, Len(webhookQueue)) = webhookQueue
                    /\ LET item == webhookQueue'[Len(webhookQueue')] IN
                         /\ item.jobId = Head(pendingJobs[p])
                         /\ item.qid = RecoveryId(item.jobId)]_vars

\* a reconciler is adding the pending rows of a store that also holds a row
\* that was delivered or failed when it scanned
C24_Witness ==
    \E p \in Procs :
      /\ proc[p] = "adding"
      /\ \E j \in JobIds :
           /\ webhook_jobs[j].status \in Terminal
           /\ j < Head(pendingJobs[p])

\* C25 -- no delivery after success: no attempt starts for a job for which the
\* receiver has already returned 2xx.
C25_NoDeliveryAfterSuccess ==
    [][\A i \in Items :
         AttemptStarts(i) => webhookQueue[i].jobId \notin acked]_vars

\* C26 -- no false success: a row with status delivered belongs to a job for
\* which the receiver has returned 2xx, and its attempt_count is the number of
\* an attempt that a work item of the job has made.
C26_NoFalseSuccess ==
    \A j \in JobIds :
      webhook_jobs[j].status = "delivered" =>
        /\ j \in acked
        /\ \E i \in ItemsOf(j) :
             webhook_jobs[j].attempt_count \in 1..PostsMade(i)

\* a job was delivered on a retry
C26_Witness ==
    \E j \in JobIds :
      /\ webhook_jobs[j].status = "delivered"
      /\ webhook_jobs[j].attempt_count >= 2

\* C27 -- a queue failure during the startup reconciliation is not absorbed:
\* the step in which a process leaves its reconciliation for good keeps every
\* work item already in the queue and changes no row; a process comes up only
\* from a scan that found nothing pending or from the last add of its loop
\* having gone through; and only a process that is up accepts events or starts
\* attempts.
C27_RecoveryFailureNotAbsorbed ==
    [][/\ \A p \in Procs :
            /\ (proc[p] \in {"scan", "adding"} /\ proc'[p] = "down") =>
                 UNCHANGED <<webhook_jobs, webhookQueue>>
            /\ (proc[p] # "up" /\ proc'[p] = "up") =>
                 \/ /\ proc[p] = "scan"
                    /\ \A j \in JobIds : webhook_jobs[j].status # "pending"
                 \/ /\ proc[p] = "adding"
                    /\ Len(pendingJobs[p]) = 1
                    /\ RecoveryItems(Head(pendingJobs[p])) # {}
                    /\ webhookQueue' = webhookQueue
                 \/ /\ proc[p] = "adding"
                    /\ Len(pendingJobs[p]) = 1
                    /\ Len(webhookQueue') = Len(webhookQueue) + 1
       /\ posted' # posted => proc["api"] = "up"
       /\ (\E i \in Items : AttemptStarts(i)) => proc["worker"] = "up"]_vars

\* a reconciler has made an add of its scan and is about to make the next
C27_Witness ==
    \E p \in Procs :
      /\ proc[p] = "adding"
      /\ \E j \in JobIds :
           /\ j < Head(pendingJobs[p])
           /\ webhook_jobs[j].status = "pending"
           /\ RecoveryItems(j) # {}

====
